---- MODULE Spec2Model ----
(***************************************************************************)
(* Model of moosetools' TestCase (testharness/base/TestCase.py): the       *)
(* Progress/Result life cycle of one TestCase, the classification of the   *)
(* Controller / Runner / Differ stages by executeObject, and the           *)
(* aggregation done by execute.                                            *)
(*                                                                         *)
(* Two threads act on the TestCase.  The worker calls execute() and hands  *)
(* what it returns to setResult(); the dispatcher polls report().  Both    *)
(* are modelled statement by statement where they touch shared fields.     *)
(* The Controller, the Runner and the Differs are collaborators whose      *)
(* behaviour (returns, logs an error, declares a skip, raises) is chosen   *)
(* nondeterministically at each stage.                                     *)
(*                                                                         *)
(* RedirectSpec models RedirectOutput (same file): worker threads opening  *)
(* capture scopes side by side, statement by statement, over the           *)
(* process-wide sys.stdout, sys.stderr and log handler stream.             *)
(*                                                                         *)
(* QueueSpec models the QueueManager (moosetest/schedulers/                *)
(* QueueManager.py): augmentJobs over one group of Jobs in its cleanup,    *)
(* submission and reap passes, followed by the Scheduler's dispatch of     *)
(* whatever augmentJobs left to execute.                                   *)
(*                                                                         *)
(* ScriptSpec models QueueManager.createQueueScript over short template    *)
(* texts.  RunnerSpec models the expected-files checks of the Runner       *)
(* (moosetest/base/Runner.py): preExecute, the execution that creates and  *)
(* removes files, and postExecute, over paths <<directory, name>>.         *)
(* ParserSpec models Parser.parse (factory/Parser.py) over the blocks of   *)
(* one file, one _parseNode call per step.                                 *)
(***************************************************************************)
EXTENDS Integers, Sequences, FiniteSets, TLC

\* ------------------------------------------------------------------ bounds
MaxDiffers       == 2   \* longest 'differs' sequence explored, worker alone
MaxThreadDiffers == 1   \* longest 'differs' sequence explored, worker and dispatcher
MaxTime          == 6   \* last tick of the wall clock
NWorkers         == 2   \* worker threads using output capture
MaxScopes        == 1   \* capture scopes each worker opens, one after the other
MaxWrites        == 1   \* messages a worker writes inside one scope
MaxMainWrites    == 1   \* messages the main thread writes
NJobs            == 2   \* Jobs of the group handed to augmentJobs
MaxSlots         == 2   \* largest slot demand of a Job
MaxJobTime       == 2   \* largest max time of a tester
SlotBudget       == 1   \* the scheduler's slot budget
PoolSize         == 2   \* worker threads of the scheduler's pool
MaxContent       == 3   \* longest queue template, in characters
MaxRunnerDiffers == 1   \* most Differs of the Runner whose files are checked
MaxBlocks        == 2   \* most blocks below [Tests] in the parsed file

\* --------------------------------------------------------------- constants
ProgressInterval == 5     \* '_progress_interval' default

\* Python's None, and a present value, for optional fields
None    == <<>>
Some(v) == <<v>>

\* class TestCase.Progress: the enum values order the life cycle
ProgressValue(p) ==
    CASE p = "WAITING"  -> 1
      [] p = "RUNNING"  -> 2
      [] p = "FINISHED" -> 3
      [] p = "CLOSED"   -> 4

Progress == {"WAITING", "RUNNING", "FINISHED", "CLOSED"}

\* class TestCase.Result
Result == {"SKIP", "PASS", "ERROR", "EXCEPTION", "FATAL"}

\* Result.exitcode, the second member of each enum tuple
exitcode(r) ==
    CASE r = "SKIP"      -> 0
      [] r = "PASS"      -> 0
      [] r = "ERROR"     -> 1
      [] r = "EXCEPTION" -> 1
      [] r = "FATAL"     -> 1

\* return codes a Runner's or Differ's execute may hand back
ReturnCodes == {0, 1}

\* What Controller.execute(obj) does in one stage: it may log an error on
\* itself, log an error on the object, call skip(), and finally raise.
ControllerBehaviour ==
    [raises: BOOLEAN, err: BOOLEAN, objerr: BOOLEAN, skip: BOOLEAN]

\* What obj.execute(...) does: it may log an error on itself and then either
\* raise or return a code.
ObjectBehaviour == [raises: BOOLEAN, err: BOOLEAN, rc: ReturnCodes]

NoController == [raises |-> FALSE, err |-> FALSE, objerr |-> FALSE, skip |-> FALSE]
NoObject     == [raises |-> FALSE, err |-> FALSE]

\* stage 0 is the Runner, stage i > 0 the i-th Differ
Stages == 0..(IF MaxDiffers > MaxThreadDiffers THEN MaxDiffers ELSE MaxThreadDiffers)

VARIABLES
    progress,             \* TestCase.__progress
    results,              \* TestCase.__results: None or Some([state, out])
    start_time,           \* TestCase.__start_time: None or Some(t)
    running_report_time,  \* TestCase.__running_report_time
    differs,              \* TestCase._differs: None (parameter unset) or Some(n), n Differs
    obj_status,           \* obj.status() of the Runner (0) and of each Differ: error logged?
    ctrl_status,          \* self._controller.status()
    ctrl_runnable,        \* self._controller.isRunnable()
    w_pc,                 \* worker thread: position in execute / setResult
    w_state,              \* execute: local 'state'
    w_results,            \* execute: local 'results', stage -> None or Some([state, out]);
                          \* out = <<stage, buffer>>: the text of that buffer of that stage
    w_returncode,         \* execute: local 'returncode' of the Runner
    w_i,                  \* execute: index of the next Differ of the for loop
    hist,                 \* what each stage's collaborators did (observation only)
    d_pc,                 \* dispatcher thread: position in report
    rendered,             \* number of results rendered by _printResult
    lines,                \* number of progress lines printed by _printProgress
    now,                  \* time.time()
    \* ---- output capture (class RedirectOutput), shared by all threads
    sys_stdout,           \* sys.stdout: the real stream or a SysRedirect
    sys_stderr,           \* sys.stderr
    log_stream,           \* logging.getLogger().handlers[0].stream
    ro_saved,             \* RedirectOutput object -> None or its _sys_stdout / _sys_stderr
    ro_buf,               \* RedirectOutput object -> its _stdout: thread -> text written
    ro_pc,                \* worker -> position around its capture scope
    ro_scope,             \* worker -> number of its current scope
    ro_wrote,             \* worker -> text it wrote inside its current scope
    ro_captured,          \* worker -> None or Some(text read from the 'stdout' property)
    real,                 \* messages that reached the real streams
    main_wrote,           \* number of messages the main thread has written
    \* ---- QueueManager and the Job group it is handed
    qm_pc,                \* "idle" (no group), "start" (before augmentJobs), "scheduled"
    qm_status,            \* Job -> its tester's status
    qm_message,           \* Job -> the message of its tester's status
    qm_caveats,           \* Job -> its tester's caveats, in the order added
    qm_finished,          \* Job -> the Job's own status is 'finished'
    qm_slots,             \* Job -> job.getSlots()
    qm_maxtime,           \* Job -> tester.getMaxTime()
    qm_prereq,            \* Job -> the Jobs it declared as prerequisites
    qm_deps,              \* Job -> its dependencies in the DAG
    qm_meta,              \* Job -> its metadata
    qm_time,              \* Job -> None or Some(previous time)
    qm_output,            \* Job -> None or Some(output)
    qm_cleanup,           \* options.queue_cleanup
    qm_storage,           \* options.results_storage, as far as the code looks at it
    qm_files,             \* the paths that exist on disk
    qm_queue_files,       \* QUEUE_FILES of the storage entry of the test directory
    qm_locked,            \* the paths whose removal raises OSError
    qm_results,           \* Job -> None or Some(its entry in the results file)
    qm_running,           \* Jobs a worker of the pool is executing
    qm_seen,              \* Job -> None or Some(the Jobs FINISHED and non-failing at its start)
    qm_refused,           \* Jobs a reserveSlots call has turned down
    qm_pre,               \* the group as it was handed to augmentJobs
    \* ---- QueueManager.createQueueScript
    cqs_pc,               \* "idle", "start", "written" or "exit" (sys.exit(1))
    cqs_readable,         \* the file params['queue_template'] can be opened
    cqs_content,          \* the text of that file
    cqs_template,         \* the 'template' dict: key -> None (not supplied) or Some(value)
    cqs_script,           \* None, or Some(text written to template['launch_script'])
    \* ---- Runner: the checks of expected files
    rn_pc,                \* "idle", "new", "pre" (after preExecute), "ran", "post"
    rn_names,             \* the Runner's 'file' 'names'
    rn_base,              \* the Runner's 'file' 'base': None or Some(directory)
    rn_check_created,     \* 'file' 'check_created': None, Some(TRUE) or Some(FALSE)
    rn_clean,             \* 'file' 'clean'
    rn_differs,           \* 'differs': a sequence of [names, base]
    rn_ignore,            \* the file names matched by the 'ignore_patterns' asked for
    rn_cwd,               \* the current working directory
    rn_git_root,          \* mooseutils.git_root_dir() is not empty
    rn_git,               \* the files tracked by git
    rn_files,             \* the regular files that exist
    rn_files0,            \* the files that existed when preExecute ended
    rn_removed,           \* the files preExecute removed
    rn_expected,          \* Runner.__expected_files: None or Some(set of paths)
    rn_pre_files,         \* Runner.__pre_execute_files: None or Some(set of paths)
    rn_errors,            \* the errors logged, in order: [kind, files]
    rn_raised,            \* the methods that ended by raising an exception
    \* ---- Parser
    ps_pc,                \* "idle", "new", "nodes" (the loop of line 85), "done"
    ps_loadable,          \* pyhit.load(filename) succeeds
    ps_blocks,            \* the blocks below [Tests], in pre-order
    ps_i,                 \* the block the loop of line 85 looks at next
    ps_errors,            \* the diagnostics logged, in order
    ps_set,               \* the parameter assignments made, in order
    ps_created,           \* the blocks Factory.create was called for, in order
    ps_warehouse          \* the objects appended to the Warehouse, in order

tc_vars   == <<progress, results, start_time, running_report_time, differs>>
obj_vars  == <<obj_status, ctrl_status, ctrl_runnable>>
w_vars    == <<w_pc, w_state, w_results, w_returncode, w_i, hist>>
d_vars    == <<d_pc, rendered, lines>>
tcase_vars == <<tc_vars, obj_vars, w_vars, d_vars, now>>
ro_vars   == <<sys_stdout, sys_stderr, log_stream, ro_saved, ro_buf, ro_pc, ro_scope,
               ro_wrote, ro_captured, real, main_wrote>>
qm_job_vars == <<qm_status, qm_message, qm_caveats, qm_finished, qm_meta, qm_time,
                 qm_output>>
qm_in_vars == <<qm_slots, qm_maxtime, qm_prereq, qm_cleanup, qm_storage, qm_results,
                qm_queue_files, qm_locked>>
qm_vars   == <<qm_pc, qm_job_vars, qm_in_vars, qm_deps, qm_files, qm_running, qm_seen,
               qm_refused, qm_pre>>
cqs_vars  == <<cqs_pc, cqs_readable, cqs_content, cqs_template, cqs_script>>
rn_in_vars == <<rn_names, rn_base, rn_check_created, rn_clean, rn_differs, rn_ignore,
                rn_cwd, rn_git_root, rn_git>>
rn_vars   == <<rn_pc, rn_in_vars, rn_files, rn_files0, rn_removed, rn_expected, rn_pre_files, rn_errors,
               rn_raised>>
ps_vars   == <<ps_pc, ps_loadable, ps_blocks, ps_i, ps_errors, ps_set, ps_created, ps_warehouse>>
not_tcase_vars == <<ro_vars, qm_vars, cqs_vars, rn_vars, ps_vars>>
not_ro_vars    == <<tcase_vars, qm_vars, cqs_vars, rn_vars, ps_vars>>
not_qm_vars    == <<tcase_vars, ro_vars, cqs_vars, rn_vars, ps_vars>>
not_cqs_vars   == <<tcase_vars, ro_vars, qm_vars, rn_vars, ps_vars>>
not_rn_vars    == <<tcase_vars, ro_vars, qm_vars, cqs_vars, ps_vars>>
not_ps_vars    == <<tcase_vars, ro_vars, qm_vars, cqs_vars, rn_vars>>
vars      == <<tcase_vars, ro_vars, qm_vars, cqs_vars, rn_vars, ps_vars>>

NotRun == [ran |-> FALSE, cb |-> NoController, called |-> FALSE, ob |-> NoObject,
           args |-> None]

\* TestCase.__init__ : fields after construction, with at most maxd Differs
TestCaseInit(maxd) ==
    /\ progress = "WAITING"
    /\ results = None
    /\ start_time = None
    /\ running_report_time = None
    /\ differs \in {None} \cup {Some(n) : n \in 0..maxd}
    /\ obj_status = [i \in Stages |-> FALSE]
    /\ ctrl_status = FALSE
    /\ ctrl_runnable = TRUE
    /\ w_pc = "waiting"
    /\ w_state = None
    /\ w_results = [i \in Stages |-> None]
    /\ w_returncode = None
    /\ w_i = 1
    /\ hist = [i \in Stages |-> NotRun]
    /\ d_pc = "idle"
    /\ rendered = 0
    /\ lines = 0
    /\ now = 0

\* -------------------------------------------------------------- QueueManager
\* the Jobs of the group, in the order of Jobs.getJobs()
Jobs == 1..NJobs

\* texts are sequences of characters; "e_acute" stands for a non-ASCII one
Ascii == {"N", "A", "S", "K", "I", "P", "L", "E", "T", "O", "F", "a", "b", "p", " "}
no_status == <<"N", "A">>
skip      == <<"S", "K", "I", "P">>
silent    == <<"S", "I", "L", "E", "N", "T">>
ok        == <<"O", "K">>
fail      == <<"F", "A", "I", "L">>

\* the name of the scheduler plugin's class
plugin == "QM"

\* a Job's metadata before anything is added to it
NoMetaData == [QUEUEING |-> None, QUEUEING_NCPUS |-> None, QUEUEING_MAXTIME |-> None,
               plugin |-> None]

\* the paths explored: the results file of the test directory (line 201),
\* another file of the test directory, and a path that lies elsewhere
ResultsFile == "results"
Files == {ResultsFile, "script", "elsewhere"}

\* every path counts as lying in the test directory
InTestDir_anywhere(f) == TRUE

\* Line 348: os.path.dirname(dirty_file) == job_list[0].getTestDir()
InTestDir(f) == f # "elsewhere"

\* os.path.exists of the results file (line 217)
qm_file == ResultsFile \in qm_files

\* no group is being scheduled
QueueIdle ==
    /\ qm_pc = "idle"
    /\ qm_status = [j \in Jobs |-> no_status]
    /\ qm_message = [j \in Jobs |-> ""]
    /\ qm_caveats = [j \in Jobs |-> <<>>]
    /\ qm_finished = [j \in Jobs |-> FALSE]
    /\ qm_slots = [j \in Jobs |-> 1]
    /\ qm_maxtime = [j \in Jobs |-> 1]
    /\ qm_prereq = [j \in Jobs |-> {}]
    /\ qm_deps = [j \in Jobs |-> {}]
    /\ qm_meta = [j \in Jobs |-> NoMetaData]
    /\ qm_time = [j \in Jobs |-> None]
    /\ qm_output = [j \in Jobs |-> None]
    /\ qm_cleanup = FALSE
    /\ qm_storage = "none"
    /\ qm_files = {}
    /\ qm_queue_files = {}
    /\ qm_locked = {}
    /\ qm_results = [j \in Jobs |-> None]
    /\ qm_running = {}
    /\ qm_seen = [j \in Jobs |-> None]
    /\ qm_refused = {}
    /\ qm_pre = None

\* ------------------------------------------- QueueManager.createQueueScript
\* the keys of the 'template' dict explored, with key.upper()
Keys == {"a", "b"}
upper(key) == IF key = "a" THEN "A" ELSE "B"

\* '<' + key.upper() + '>'
Placeholder(key) == <<"<", upper(key), ">">>

\* no launch script is being written
ScriptIdle ==
    /\ cqs_pc = "idle"
    /\ cqs_readable = TRUE
    /\ cqs_content = <<>>
    /\ cqs_template = [k \in Keys |-> None]
    /\ cqs_script = None

\* 'pat in s' for texts, and the first position where pat occurs in s from i on
OccursAt(s, pat, i) == i + Len(pat) - 1 <= Len(s) /\ SubSeq(s, i, i + Len(pat) - 1) = pat
Contains(s, pat) == \E i \in 1..Len(s) : OccursAt(s, pat, i)

\* str.replace(pat, new): every occurrence, left to right, without overlap
RECURSIVE replace(_, _, _)
replace(s, pat, new) ==
    IF s = <<>> THEN <<>>
    ELSE IF OccursAt(s, pat, 1)
    THEN new \o replace(SubSeq(s, Len(pat) + 1, Len(s)), pat, new)
    ELSE <<Head(s)>> \o replace(Tail(s), pat, new)

\* template.keys(), in the order of the dict
keys == <<"a", "b">>

\* Lines 83-85: the supplied keys whose upper-case name occurs in the text
RECURSIVE replaceSupplied(_, _)
replaceSupplied(content, i) ==
    IF i > Len(keys) THEN content
    ELSE IF cqs_template[keys[i]] # None /\ Contains(content, <<upper(keys[i])>>)
    THEN replaceSupplied(replace(content, Placeholder(keys[i]), cqs_template[keys[i]][1]),
                         i + 1)
    ELSE replaceSupplied(content, i + 1)

\* Lines 88-90: the loop is over the supplied keys again, and replaces only
\* where the upper-case name does not occur in the text
RECURSIVE stripUnsupplied(_, _)
stripUnsupplied(content, i) ==
    IF i > Len(keys) THEN content
    ELSE IF cqs_template[keys[i]] # None /\ ~Contains(content, <<upper(keys[i])>>)
    THEN stripUnsupplied(replace(content, Placeholder(keys[i]), <<>>), i + 1)
    ELSE stripUnsupplied(content, i + 1)

\* the template texts (up to MaxContent characters) and the supplied values
\* explored
ScriptInit ==
    LET Chars  == {"<", ">", "A", "B", "x"}
        Values == {<<"1">>, <<"2", "2">>}
    IN /\ cqs_pc = "start"
       /\ cqs_readable \in BOOLEAN
       /\ cqs_content \in UNION {[1..n -> Chars] : n \in 0..MaxContent}
       /\ cqs_template \in [Keys -> {None} \cup {Some(v) : v \in Values}]
       /\ cqs_script = None

\* Lines 73-95
createQueueScript ==
    /\ cqs_pc = "start"
    /\ IF cqs_readable
       THEN /\ cqs_script' = Some(stripUnsupplied(replaceSupplied(cqs_content, 1), 1))
            /\ cqs_pc' = "written"
       ELSE /\ cqs_script' = None
            /\ cqs_pc' = "exit"
    /\ UNCHANGED <<cqs_readable, cqs_content, cqs_template>>
    /\ UNCHANGED not_cqs_vars


\* ------------------------------------------------- Runner: expected files
\* A path is <<directory, name>>; the directory "" makes it a relative path.
\* os.path.isabs, os.path.join of a directory and a path
isabs(path) == path[1] # ""
path_join(dir, path) == IF isabs(path) THEN path ELSE <<dir, path[2]>>

\* no Runner is being checked
RunnerIdle ==
    /\ rn_pc = "idle"
    /\ rn_names = {}
    /\ rn_base = None
    /\ rn_check_created = None
    /\ rn_clean = TRUE
    /\ rn_differs = <<>>
    /\ rn_ignore = {}
    /\ rn_cwd = "/b"
    /\ rn_git_root = FALSE
    /\ rn_git = {}
    /\ rn_files = {}
    /\ rn_files0 = {}
    /\ rn_removed = {}
    /\ rn_expected = None
    /\ rn_pre_files = None
    /\ rn_errors = <<>>
    /\ rn_raised = {}

\* os.path.isfile: a relative path is looked up in the working directory
isfile(path, files) == path_join(rn_cwd, path) \in files
\* os.listdir(dir): the bare names of the entries of dir
listdir(dir, files) == {<<"", f[2]>> : f \in {g \in files : g[1] = dir}}

\* Runner.filenames (232-249): [kind, items] of the names of obj, the relative
\* ones joined to the base of obj when it has one. The value is a list when obj
\* has a base (line 247) and a set when it has none (line 249).
filenames(obj) ==
    IF obj.base # None
    THEN [kind |-> "list", items |-> {path_join(obj.base[1], f) : f \in obj.names}]
    ELSE [kind |-> "set", items |-> obj.names]

\* Runner._getExpectedFiles (223-230): None when it raises TypeError, which
\* 'expected += ...' (line 229) does when 'expected' is a set, that is when the
\* Runner has no base and has a Differ; Some(the names collected) otherwise.
getExpectedFiles ==
    LET expected == filenames([names |-> rn_names, base |-> rn_base])
    IN  IF expected.kind = "set" /\ rn_differs # <<>>
        THEN None
        ELSE Some(expected.items
                  \cup UNION {filenames(rn_differs[i]).items : i \in DOMAIN rn_differs})

\* mooseutils.git_ls_files(dir): the tracked files below dir; root_dir, the
\* top of the repository, is "/" and holds every directory.
git_ls_files(dir) == IF dir = "/" THEN rn_git ELSE {f \in rn_git : f[1] = dir}

\* the cleaning step that removes nothing
cleaned_keepAll(expected) == rn_files

\* lines 180-184: the files left by the cleaning step
cleaned(expected) ==
    IF rn_clean
    THEN rn_files \ {path_join(rn_cwd, f) : f \in {g \in expected : isfile(g, rn_files)}}
    ELSE rn_files

\* the Runners checked: parameters, Differs, and the files around them
RunnerInit ==
    LET Differs == {[names |-> {<<"", "g">>}, base |-> None],
                    [names |-> {<<"", "g">>}, base |-> Some("/b")]}
    IN  /\ rn_pc = "new"
        /\ rn_names \in {{}, {<<"", "f">>}, {<<"/b", "f">>}, {<<"/o", "f">>}}
        /\ rn_base \in {None, Some("/b")}
        /\ rn_check_created \in {None, Some(TRUE), Some(FALSE)}
        /\ rn_clean \in BOOLEAN
        /\ rn_differs \in UNION {[1..n -> Differs] : n \in 0..MaxRunnerDiffers}
        /\ rn_ignore \in {{}, {"g"}}
        /\ rn_cwd \in {"/b", "/o"}
        /\ rn_files \in SUBSET {<<"/b", "f">>, <<"/b", "g">>, <<"/o", "f">>}
        /\ rn_git_root \in BOOLEAN
        /\ rn_git \in IF rn_git_root THEN SUBSET (rn_files \ {<<"/b", "g">>}) ELSE {{}}
        /\ rn_files0 = {}
        /\ rn_removed = {}
        /\ rn_expected = None
        /\ rn_pre_files = None
        /\ rn_errors = <<>>
        /\ rn_raised = {}

error(kind, fs) == [kind |-> kind, files |-> fs]

\* Runner.preExecute (121-127) with _preExecuteExpectedFiles (154-202)
preExecute ==
    /\ rn_pc = "new"
    /\ rn_pc' = "pre"
    /\ LET got == getExpectedFiles
           expected == IF got = None THEN {} ELSE got[1]
           non_abs == {f \in expected : ~isabs(f)}
           tracked == IF rn_git_root
                      THEN git_ls_files(IF rn_base # None THEN rn_base[1] ELSE "/")
                           \cap expected
                      ELSE {}
           left == cleaned(expected)
           exist == {f \in expected : isfile(f, left)}
           check == rn_check_created = Some(TRUE)
           snap == check \/ (rn_check_created = None /\ rn_base # None)
       IN  IF got = None
           THEN \* line 160 raises
                /\ rn_raised' = rn_raised \cup {"preExecute"}
                /\ UNCHANGED <<rn_expected, rn_files, rn_pre_files, rn_errors>>
           ELSE /\ rn_expected' = got
                /\ rn_raised' = rn_raised
                /\ IF non_abs # {}
                   THEN /\ rn_errors' = Append(rn_errors, error("not_absolute", non_abs))
                        /\ UNCHANGED <<rn_files, rn_pre_files>>
                   ELSE IF tracked # {}
                   THEN /\ rn_errors' = Append(rn_errors, error("git", tracked))
                        /\ UNCHANGED <<rn_files, rn_pre_files>>
                   ELSE /\ rn_files' = left
                        /\ IF exist # {}
                           THEN /\ rn_errors' = Append(rn_errors, error("exist", exist))
                                /\ UNCHANGED rn_pre_files
                           ELSE IF check /\ rn_base = None
                           THEN /\ rn_errors' = Append(rn_errors, error("check_created", {}))
                                /\ UNCHANGED rn_pre_files
                           ELSE IF snap
                           THEN \* line 202: os.listdir() lists the working directory
                                /\ rn_pre_files' =
                                       Some({path_join(rn_base[1], f) : f \in listdir(rn_cwd, left)})
                                /\ UNCHANGED rn_errors
                           ELSE UNCHANGED <<rn_pre_files, rn_errors>>
    /\ rn_files0' = rn_files'
    /\ rn_removed' = rn_files \ rn_files'
    /\ UNCHANGED <<rn_in_vars, not_rn_vars>>

\* Runner.execute: the command creates and removes files
Runner_execute ==
    /\ rn_pc = "pre"
    /\ rn_pc' = "ran"
    /\ rn_files' \in SUBSET {<<"/b", "f">>, <<"/b", "g">>, <<"/o", "f">>}
    /\ UNCHANGED <<rn_in_vars, rn_files0, rn_removed, rn_expected, rn_pre_files, rn_errors, rn_raised,
                   not_rn_vars>>

\* line 221: the files listed by the 'created but not expected' error
unexpected(diff, expected) == diff \ expected

\* Runner.postExecute (129-138) with _postExecuteExpectedFiles (204-221)
postExecute ==
    /\ rn_pc = "ran"
    /\ rn_pc' = "post"
    /\ IF rn_expected = None
       THEN \* line 210 iterates over None
            /\ rn_raised' = rn_raised \cup {"postExecute"}
            /\ UNCHANGED rn_errors
       ELSE LET expected == rn_expected[1]
                do_not_exist == {f \in expected : ~isfile(f, rn_files)}
                e1 == IF do_not_exist # {}
                      THEN Append(rn_errors, error("not_created", do_not_exist))
                      ELSE rn_errors
                pre == rn_pre_files[1]
                post == listdir(rn_base[1], rn_files)
                diff == post \ pre
            IN  /\ rn_raised' = rn_raised
                /\ rn_errors' =
                       IF rn_pre_files # None /\ diff # {} /\ expected # diff
                       THEN Append(e1, error("created_not_expected", unexpected(diff, expected)))
                       ELSE e1
    /\ UNCHANGED <<rn_in_vars, rn_files, rn_files0, rn_removed, rn_expected, rn_pre_files,
                   not_rn_vars>>

\* ----------------------------------------------------------------- Parser
\* no file is being parsed
ParserIdle ==
    /\ ps_pc = "idle"
    /\ ps_loadable = TRUE
    /\ ps_blocks = <<>>
    /\ ps_i = 1
    /\ ps_errors = <<>>
    /\ ps_set = <<>>
    /\ ps_created = <<>>
    /\ ps_warehouse = <<>>

\* The Factory: the types it knows, and the one whose construction fails.
\* Factory.params(otype) is None for a type it does not know, the names of the
\* parameters of the type otherwise; Factory.create(otype, params) is None when
\* the construction fails.
factory_params(otype) == IF otype \in {"T", "Bad"} THEN Some({"name", "x"}) ELSE None
factory_create(otype, block) ==
    IF otype = "T" THEN Some([type |-> otype, block |-> block]) ELSE None

\* the files parsed: a block is a leaf or has child blocks, has or lacks 'type'
ParserInit ==
    LET ParamLists == {<<>>, <<<<"x", 1>>>>, <<<<"y", 1>>>>, <<<<"x", 1>>, <<"x", 2>>>>,
                       <<<<"x", 1>>, <<"y", 1>>>>}
        Built  == [name : {"a", "b"}, leaf : {TRUE}, type : {Some("T")}, params : ParamLists]
        Failed == [name : {"a", "b"}, leaf : {TRUE},
                   type : {None, Some("Bad"), Some("NoSuch")}, params : {<<>>, <<<<"x", 1>>>>}]
        Inner  == [name : {"a"}, leaf : {FALSE}, type : {None, Some("T")}, params : {<<>>}]
    IN  /\ ps_pc = "new"
        /\ ps_loadable \in BOOLEAN
        /\ ps_blocks \in UNION {[1..n -> Built \cup Failed \cup Inner] : n \in 0..MaxBlocks}
        /\ ps_i = 1
        /\ ps_errors = <<>>
        /\ ps_set = <<>>
        /\ ps_created = <<>>
        /\ ps_warehouse = <<>>

\* a diagnostic that does not say which block it is about
diagnostic_anyBlock(kind, block, key) == [kind |-> kind, block |-> 0, key |-> key]

diagnostic(kind, block, key) == [kind |-> kind, block |-> block, key |-> key]

\* Parser.parse, lines 71-80: load the file
parse ==
    /\ ps_pc = "new"
    /\ IF ps_loadable
       THEN ps_pc' = "nodes" /\ UNCHANGED ps_errors
       ELSE /\ ps_pc' = "done"
            /\ ps_errors' = Append(ps_errors, diagnostic("LoadFailed", 0, ""))
    /\ UNCHANGED <<ps_loadable, ps_blocks, ps_i, ps_set, ps_created, ps_warehouse, not_ps_vars>>

\* the 'type' of a block that has none is taken to be "T"
typeOf_default(node) == IF node.type = None THEN Some("T") ELSE node.type

\* line 155: node.get('type', None)
typeOf(node) == node.type

\* lines 169-176: the diagnostics of the parameters of block i the type lacks
unusedParameters(i, names) ==
    LET node == ps_blocks[i]
        all == [k \in DOMAIN node.params |-> diagnostic("UnusedParameter", i, node.params[k][1])]
        Unused(d) == d.key \notin names
    IN  SelectSeq(all, Unused)

\* lines 167-176: the assignments made for block i
assignments(i) ==
    LET node == ps_blocks[i]
    IN  <<[block |-> i, key |-> "name", value |-> node.name]>>
        \o [k \in DOMAIN node.params |->
               [block |-> i, key |-> node.params[k][1], value |-> node.params[k][2]]]

\* One turn of the loop of lines 85-86: moosetree.findall keeps the blocks
\* without child blocks, and Parser._parseNode (153-184) handles each of them.
parseNode ==
    /\ ps_pc = "nodes"
    /\ ps_i <= Len(ps_blocks)
    /\ ps_i' = ps_i + 1
    /\ LET i == ps_i
           node == ps_blocks[i]
           otype == typeOf(node)
           params == factory_params(otype[1])
           obj == factory_create(otype[1], i)
       IN  IF ~node.leaf
           THEN UNCHANGED <<ps_errors, ps_set, ps_created, ps_warehouse>>
           ELSE IF otype = None
           THEN /\ ps_errors' = Append(ps_errors, diagnostic("MissingType", i, ""))
                /\ UNCHANGED <<ps_set, ps_created, ps_warehouse>>
           ELSE IF params = None
           THEN /\ ps_errors' = Append(ps_errors, diagnostic("UnknownType", i, ""))
                /\ UNCHANGED <<ps_set, ps_created, ps_warehouse>>
           ELSE /\ ps_set' = ps_set \o assignments(i)
                /\ ps_created' = Append(ps_created, i)
                /\ IF obj = None
                   THEN /\ ps_errors' = ps_errors \o unusedParameters(i, params[1])
                                        \o <<diagnostic("ConstructionFailed", i, "")>>
                        /\ UNCHANGED ps_warehouse
                   ELSE /\ ps_errors' = ps_errors \o unusedParameters(i, params[1])
                        /\ ps_warehouse' = Append(ps_warehouse, obj[1])
    /\ UNCHANGED <<ps_pc, ps_loadable, ps_blocks, not_ps_vars>>

\* the loop of line 85 is over: parse returns
parse_return ==
    /\ ps_pc = "nodes"
    /\ ps_i > Len(ps_blocks)
    /\ ps_pc' = "done"
    /\ UNCHANGED <<ps_loadable, ps_blocks, ps_i, ps_errors, ps_set, ps_created, ps_warehouse,
                   not_ps_vars>>

\* ------------------------------------------------------------ RedirectOutput
\* threading: the main thread and the workers, by thread ident
Main    == 0
Workers == 1..NWorkers
Threads == {Main} \cup Workers

\* every RedirectOutput object a worker may create: <<worker, scope number>>
Objects == Workers \X (1..MaxScopes)

\* a stream: one of the two real streams, or the SysRedirect that
\* RedirectOutput object obj made for that channel
RealStream(ch) == [kind |-> "real", obj |-> <<0, 0>>, ch |-> ch]
SysRedirect(o, ch) == [kind |-> "shim", obj |-> o, ch |-> ch]

\* the state before any RedirectOutput object exists
RedirectInit ==
    /\ sys_stdout = RealStream("out")
    /\ sys_stderr = RealStream("err")
    /\ log_stream = RealStream("err")
    /\ ro_saved = [o \in Objects |-> None]
    /\ ro_buf = [o \in Objects |-> [ch \in {"out", "err"} |-> [t \in Threads |-> <<>>]]]
    /\ ro_pc = [t \in Workers |-> "out"]
    /\ ro_scope = [t \in Workers |-> 0]
    /\ ro_wrote = [t \in Workers |-> <<>>]
    /\ ro_captured = [t \in Workers |-> None]
    /\ real = {}
    /\ main_wrote = 0

\* the RedirectOutput object of worker t's current scope
Current(t) == <<t, ro_scope[t]>>

\* Lines 38-42, SysRedirect.write: where a message written to 'stream' by
\* thread t lands.  The main thread is passed on to the wrapped stream, any
\* other thread lands in the buffer of the object that made the SysRedirect.
RECURSIVE write(_, _)
write(stream, t) ==
    IF stream.kind = "real" THEN stream
    ELSE IF t = Main THEN write(ro_saved[stream.obj][1][stream.ch], t)
    ELSE stream

\* the buffers and the real streams after thread t wrote message m to 'stream'
Written(stream, t, m) ==
    LET to == write(stream, t) IN
    IF to.kind = "real"
    THEN /\ real' = real \cup {m}
         /\ ro_buf' = ro_buf
    ELSE /\ real' = real
         /\ ro_buf' = [ro_buf EXCEPT ![to.obj][to.ch][t] = Append(@, m)]

\* Lines 48-54, RedirectOutput.__init__ (called by redirectOutput() in the
\* 'with' statement): fresh buffers, and the streams in place right now
RedirectOutput_init(t) ==
    /\ ro_pc[t] = "out"
    /\ ro_scope[t] < MaxScopes
    /\ ro_scope' = [ro_scope EXCEPT ![t] = @ + 1]
    /\ ro_saved' = [ro_saved EXCEPT ![<<t, ro_scope[t] + 1>>] =
                       Some([out |-> sys_stdout, err |-> sys_stderr])]
    /\ ro_wrote' = [ro_wrote EXCEPT ![t] = <<>>]
    /\ ro_captured' = [ro_captured EXCEPT ![t] = None]
    /\ ro_pc' = [ro_pc EXCEPT ![t] = "e66"]
    /\ UNCHANGED <<sys_stdout, sys_stderr, log_stream, ro_buf, real, main_wrote>>
    /\ UNCHANGED not_ro_vars

\* Line 66, __enter__
enter_66(t) ==
    /\ ro_pc[t] = "e66"
    /\ sys_stdout' = SysRedirect(Current(t), "out")
    /\ ro_pc' = [ro_pc EXCEPT ![t] = "e67"]
    /\ UNCHANGED <<sys_stderr, log_stream, ro_saved, ro_buf, ro_scope, ro_wrote,
                   ro_captured, real, main_wrote>>
    /\ UNCHANGED not_ro_vars

\* Line 67
enter_67(t) ==
    /\ ro_pc[t] = "e67"
    /\ sys_stderr' = SysRedirect(Current(t), "err")
    /\ ro_pc' = [ro_pc EXCEPT ![t] = "e69"]
    /\ UNCHANGED <<sys_stdout, log_stream, ro_saved, ro_buf, ro_scope, ro_wrote,
                   ro_captured, real, main_wrote>>
    /\ UNCHANGED not_ro_vars

\* Lines 69-73: the log handler is pointed at whatever sys.stdout is now
enter_69(t) ==
    /\ ro_pc[t] = "e69"
    /\ log_stream' = sys_stdout
    /\ ro_pc' = [ro_pc EXCEPT ![t] = "body"]
    /\ UNCHANGED <<sys_stdout, sys_stderr, ro_saved, ro_buf, ro_scope, ro_wrote,
                   ro_captured, real, main_wrote>>
    /\ UNCHANGED not_ro_vars

\* Inside the scope the worker prints (sys.stdout.write) or logs (the
\* handler's stream.write) one message
body_write(t) ==
    /\ ro_pc[t] = "body"
    /\ Len(ro_wrote[t]) < MaxWrites
    /\ \E how \in {"print", "log"} :
         LET m == <<t, ro_scope[t], Len(ro_wrote[t]) + 1>> IN
         /\ Written(IF how = "print" THEN sys_stdout ELSE log_stream, t, m)
         /\ ro_wrote' = [ro_wrote EXCEPT ![t] = Append(@, m)]
    /\ UNCHANGED <<sys_stdout, sys_stderr, log_stream, ro_saved, ro_pc, ro_scope,
                   ro_captured, main_wrote>>
    /\ UNCHANGED not_ro_vars

\* The body of the 'with' ends, by falling off its end or by an exception;
\* either way __exit__ is called
body_end(t) ==
    /\ ro_pc[t] = "body"
    /\ ro_pc' = [ro_pc EXCEPT ![t] = "x77"]
    /\ UNCHANGED <<sys_stdout, sys_stderr, log_stream, ro_saved, ro_buf, ro_scope,
                   ro_wrote, ro_captured, real, main_wrote>>
    /\ UNCHANGED not_ro_vars

\* Line 77, __exit__
exit_77(t) ==
    /\ ro_pc[t] = "x77"
    /\ sys_stdout' = ro_saved[Current(t)][1].out
    /\ ro_pc' = [ro_pc EXCEPT ![t] = "x78"]
    /\ UNCHANGED <<sys_stderr, log_stream, ro_saved, ro_buf, ro_scope, ro_wrote,
                   ro_captured, real, main_wrote>>
    /\ UNCHANGED not_ro_vars

\* Line 78
exit_78(t) ==
    /\ ro_pc[t] = "x78"
    /\ sys_stderr' = ro_saved[Current(t)][1].err
    /\ ro_pc' = [ro_pc EXCEPT ![t] = "x80"]
    /\ UNCHANGED <<sys_stdout, log_stream, ro_saved, ro_buf, ro_scope, ro_wrote,
                   ro_captured, real, main_wrote>>
    /\ UNCHANGED not_ro_vars

\* Lines 80-82: the log handler gets the saved stderr
exit_80(t) ==
    /\ ro_pc[t] = "x80"
    /\ log_stream' = ro_saved[Current(t)][1].err
    /\ ro_pc' = [ro_pc EXCEPT ![t] = "read"]
    /\ UNCHANGED <<sys_stdout, sys_stderr, ro_saved, ro_buf, ro_scope, ro_wrote,
                   ro_captured, real, main_wrote>>
    /\ UNCHANGED not_ro_vars

\* Lines 56-58, the 'stdout' property, read by executeObject after the scope
stdout_58(t) ==
    /\ ro_pc[t] = "read"
    /\ ro_captured' = [ro_captured EXCEPT ![t] = Some(ro_buf[Current(t)]["out"][t])]
    /\ ro_pc' = [ro_pc EXCEPT ![t] = "out"]
    /\ UNCHANGED <<sys_stdout, sys_stderr, log_stream, ro_saved, ro_buf, ro_scope,
                   ro_wrote, real, main_wrote>>
    /\ UNCHANGED not_ro_vars

\* The main thread prints (the dispatcher's report): sys.stdout.write
main_write ==
    /\ main_wrote < MaxMainWrites
    /\ Written(sys_stdout, Main, <<Main, 0, main_wrote + 1>>)
    /\ main_wrote' = main_wrote + 1
    /\ UNCHANGED <<sys_stdout, sys_stderr, log_stream, ro_saved, ro_pc, ro_scope,
                   ro_wrote, ro_captured>>
    /\ UNCHANGED not_ro_vars

\* workers opening capture scopes side by side, and the main thread
RedirectSpecInit == RedirectInit /\ TestCaseInit(0) /\ differs = None /\ QueueIdle /\ ScriptIdle /\ RunnerIdle /\ ParserIdle

RedirectNext ==
    \/ \E t \in Workers : RedirectOutput_init(t)
    \/ \E t \in Workers : enter_66(t)
    \/ \E t \in Workers : enter_67(t)
    \/ \E t \in Workers : enter_69(t)
    \/ \E t \in Workers : body_write(t)
    \/ \E t \in Workers : body_end(t)
    \/ \E t \in Workers : exit_77(t)
    \/ \E t \in Workers : exit_78(t)
    \/ \E t \in Workers : exit_80(t)
    \/ \E t \in Workers : stdout_58(t)
    \/ main_write

RedirectSpec == RedirectSpecInit /\ [][RedirectNext]_vars

\* ------------------------------------------------- QueueManager.augmentJobs
\* tester.isSkip(), isSilent(), isNoStatus(); job.isSkip() asks the tester
isSkip(j)     == qm_status[j] = skip
isSilent(j)   == qm_status[j] = silent
isNoStatus(j) == qm_status[j] = no_status

\* the prerequisite declarations explored: none, or one Job requiring another
Prereqs ==
    {[j \in Jobs |-> {}]} \cup
    {[j \in Jobs |-> IF j = e[2] THEN {e[1]} ELSE {}] :
        e \in {x \in Jobs \X Jobs : x[1] # x[2]}}

\* the entries a results file may hold for one Job: STATUS, TIMING, CAVEATS, OUTPUT
Entries ==
    [STATUS : {ok, <<"O", "K", "e_acute">>}, TIMING : {3},
     CAVEATS : {<<>>, << <<"a">>, <<"b">> >>}, OUTPUT : {"out"}]

\* options.results_storage: falsy; without a (truthy) entry for the test
\* directory; with an entry lacking this plugin's key; with this plugin's key
Storages == {"none", "no_entry", "other_plugin", "this_plugin"}

\* what the results-storage tests of lines 216, 226 and 231-232 see
HasEntry  == qm_storage \in {"other_plugin", "this_plugin"}
HasPlugin == qm_storage = "this_plugin"

\* a group as the Scheduler hands it to augmentJobs.  Each input is varied
\* where the code reads it: which Jobs are already finished (such a Job has a
\* tester with a status), the prerequisites, the slot demands and the max
\* times when there is no session storage; the results file's entries when
\* the file is read.  The prerequisites are varied over groups of unit demand.
QueueInit ==
    /\ qm_pc = "start"
    /\ qm_status \in [Jobs -> {no_status, skip, silent}]
    /\ qm_cleanup \in BOOLEAN
    /\ qm_caveats \in [Jobs -> IF qm_cleanup THEN {<<>>} ELSE {<<>>, << <<"p">> >>}]
    /\ qm_message = [j \in Jobs |-> ""]
    /\ qm_storage \in Storages
    /\ IF qm_cleanup
       THEN /\ qm_files \in SUBSET Files
            /\ qm_queue_files \in SUBSET Files
            /\ qm_locked \in SUBSET (qm_files \cap qm_queue_files)
            /\ ~HasEntry => qm_queue_files = {}
       ELSE /\ qm_files \in {{}, {ResultsFile}}
            /\ qm_queue_files = {}
            /\ qm_locked = {}
    /\ qm_storage = "none" => ~qm_file
    /\ IF ~qm_cleanup /\ qm_storage = "none"
       THEN /\ qm_finished \in [Jobs -> BOOLEAN]
            /\ \A j \in Jobs : qm_finished[j] => qm_status[j] # no_status
            /\ qm_prereq \in Prereqs
            /\ IF qm_prereq = [j \in Jobs |-> {}]
               THEN /\ qm_slots \in [Jobs -> {1, MaxSlots}]
                    /\ qm_maxtime \in [Jobs -> {1, MaxJobTime}]
               ELSE /\ qm_slots = [j \in Jobs |-> 1]
                    /\ qm_maxtime = [j \in Jobs |-> 1]
       ELSE /\ qm_finished = [j \in Jobs |-> FALSE]
            /\ qm_prereq = [j \in Jobs |-> {}]
            /\ qm_slots = [j \in Jobs |-> 1]
            /\ qm_maxtime = [j \in Jobs |-> 1]
    /\ IF ~qm_cleanup /\ qm_storage = "this_plugin" /\ qm_file
       THEN qm_results \in [Jobs -> {None} \cup {Some(e) : e \in Entries}]
       ELSE qm_results = [j \in Jobs |-> None]
    /\ qm_deps = qm_prereq
    /\ qm_meta = [j \in Jobs |-> NoMetaData]
    /\ qm_time = [j \in Jobs |-> None]
    /\ qm_output = [j \in Jobs |-> None]
    /\ qm_running = {}
    /\ qm_seen = [j \in Jobs |-> None]
    /\ qm_refused = {}
    /\ qm_pre = None

\* Jobs.getJobs(): a new list of every Job of the group, in order
getJobs == [i \in 1..NJobs |-> i]

\* Line 319, keeping every character
encode_keepAll(text) == text

\* Line 319, str.encode('ascii', 'ignore'): characters outside ASCII are dropped
encode(text) == SelectSeq(text, LAMBDA c : c \in Ascii)

\* Line 327, ' '.join(list)
RECURSIVE join(_)
join(list) ==
    IF list = <<>> THEN <<>>
    ELSE IF Len(list) = 1 THEN list[1]
    ELSE list[1] \o <<" ">> \o join(Tail(list))

\* max() and the sum, as the loops of lines 114-118 and 122-127 compute them
Max2(a, b) == IF a >= b THEN a ELSE b

\* Lines 112-118
getCores_sum(job_list) ==
    LET RECURSIVE loop(_, _)
        loop(i, slots) ==
            IF i > Len(job_list) THEN slots
            ELSE IF isSkip(job_list[i]) THEN loop(i + 1, slots)
            ELSE loop(i + 1, slots + qm_slots[job_list[i]])
    IN loop(1, 1)

getCores(job_list) ==
    LET RECURSIVE loop(_, _)
        loop(i, slots) ==
            IF i > Len(job_list) THEN slots
            ELSE IF isSkip(job_list[i]) THEN loop(i + 1, slots)
            ELSE loop(i + 1, Max2(slots, qm_slots[job_list[i]]))
    IN loop(1, 1)

\* Lines 120-127
getMaxTime(job_list) ==
    LET RECURSIVE loop(_, _)
        loop(i, total_time) ==
            IF i > Len(job_list) THEN total_time
            ELSE IF isSkip(job_list[i]) THEN loop(i + 1, total_time)
            ELSE loop(i + 1, total_time + qm_maxtime[job_list[i]])
    IN loop(1, 0)

\* Lines 238-241
finishAllJobs ==
    /\ qm_finished' = [j \in Jobs |-> TRUE]
    /\ UNCHANGED <<qm_status, qm_message, qm_caveats, qm_meta, qm_time, qm_output, qm_files>>

\* Lines 205-236, with the Jobs of a launched group left unfinished while
\* the results file is missing
isProcessReady_leaveQueued(ret) ==
    IF qm_storage = "none" THEN ret = FALSE
    ELSE IF HasEntry /\ ~qm_file
    THEN /\ ret = FALSE
         /\ qm_message' = [j \in Jobs |-> IF isNoStatus(j) THEN "QUEUED" ELSE qm_message[j]]
         /\ UNCHANGED <<qm_status, qm_caveats, qm_finished, qm_meta, qm_time, qm_output,
                        qm_files>>
    ELSE IF ~HasEntry THEN ret = FALSE /\ finishAllJobs
    ELSE IF ~HasPlugin THEN ret = FALSE /\ finishAllJobs
    ELSE ret = TRUE

\* Lines 205-236 without the test of lines 231-234 for this plugin's key
isProcessReady_anyPlugin(ret) ==
    IF qm_storage = "none" THEN ret = FALSE
    ELSE IF HasEntry /\ ~qm_file
    THEN /\ ret = FALSE
         /\ qm_message' = [j \in Jobs |-> IF isNoStatus(j) THEN "QUEUED" ELSE qm_message[j]]
         /\ qm_finished' = [j \in Jobs |-> TRUE]
         /\ UNCHANGED <<qm_status, qm_caveats, qm_meta, qm_time, qm_output, qm_files>>
    ELSE IF ~HasEntry THEN ret = FALSE /\ finishAllJobs
    ELSE ret = TRUE

\* Lines 205-236: ret is the value returned; the branches that touch the
\* Jobs say what they become, the others leave that to the caller's next call
isProcessReady(ret) ==
    IF qm_storage = "none" THEN ret = FALSE
    ELSE IF HasEntry /\ ~qm_file
    THEN /\ ret = FALSE
         /\ qm_message' = [j \in Jobs |-> IF isNoStatus(j) THEN "QUEUED" ELSE qm_message[j]]
         /\ qm_finished' = [j \in Jobs |-> TRUE]
         /\ UNCHANGED <<qm_status, qm_caveats, qm_meta, qm_time, qm_output, qm_files>>
    ELSE IF ~HasEntry THEN ret = FALSE /\ finishAllJobs
    ELSE IF ~HasPlugin THEN ret = FALSE /\ finishAllJobs
    ELSE ret = TRUE

\* Lines 243-249
isLaunchable == qm_storage = "none"

\* the first Job of the list that is not finished (lines 268-270)
Executor == CHOOSE j \in Jobs : ~qm_finished[j] /\ \A k \in Jobs : ~qm_finished[k] => j <= k

\* Lines 251-281, with every launchable Job left as it is
prepareJobs_keepAll ==
    /\ qm_caveats' = [j \in Jobs |-> IF isSkip(j) THEN qm_caveats[j] ELSE <<>>]
    /\ IF \E j \in Jobs : ~qm_finished[j]
       THEN qm_meta' = [qm_meta EXCEPT ![Executor] =
                           [@ EXCEPT !.QUEUEING = Some(plugin),
                                     !.QUEUEING_NCPUS = Some(getCores(getJobs)),
                                     !.QUEUEING_MAXTIME = Some(getMaxTime(getJobs))]]
       ELSE UNCHANGED qm_meta
    /\ UNCHANGED <<qm_status, qm_message, qm_finished, qm_time, qm_output, qm_files>>

\* Lines 251-281, without the LAUNCHING message
prepareJobs_noMessage ==
    /\ qm_caveats' = [j \in Jobs |-> IF isSkip(j) THEN qm_caveats[j] ELSE <<>>]
    /\ IF \E j \in Jobs : ~qm_finished[j]
       THEN /\ qm_meta' = [qm_meta EXCEPT ![Executor] =
                              [@ EXCEPT !.QUEUEING = Some(plugin),
                                        !.QUEUEING_NCPUS = Some(getCores(getJobs)),
                                        !.QUEUEING_MAXTIME = Some(getMaxTime(getJobs))]]
            /\ qm_finished' = [j \in Jobs |-> j # Executor]
       ELSE UNCHANGED <<qm_meta, qm_finished>>
    /\ UNCHANGED <<qm_status, qm_message, qm_time, qm_output, qm_files>>

\* Lines 251-281
prepareJobs ==
    /\ qm_caveats' = [j \in Jobs |-> IF isSkip(j) THEN qm_caveats[j] ELSE <<>>]
    /\ IF \E j \in Jobs : ~qm_finished[j]
       THEN /\ qm_meta' = [qm_meta EXCEPT ![Executor] =
                              [@ EXCEPT !.QUEUEING = Some(plugin),
                                        !.QUEUEING_NCPUS = Some(getCores(getJobs)),
                                        !.QUEUEING_MAXTIME = Some(getMaxTime(getJobs))]]
            /\ qm_message' = [j \in Jobs |->
                                 IF ~qm_finished[j] /\ j # Executor /\ isNoStatus(j)
                                 THEN "LAUNCHING" ELSE qm_message[j]]
            /\ qm_finished' = [j \in Jobs |-> j # Executor]
       ELSE UNCHANGED <<qm_meta, qm_message, qm_finished>>
    /\ UNCHANGED <<qm_status, qm_time, qm_output, qm_files>>

\* Lines 283-334, with the results applied to silent Jobs as well
setJobStatus_silentToo ==
    /\ qm_meta' = [qm_meta EXCEPT ![getJobs[1]].plugin = Some("stored")]
    /\ qm_finished' = [j \in Jobs |-> TRUE]
    /\ qm_status' = [j \in Jobs |->
                        IF qm_results[j] # None THEN encode(qm_results[j][1].STATUS)
                        ELSE skip]
    /\ qm_message' = [j \in Jobs |-> ""]
    /\ qm_time' = [j \in Jobs |->
                      IF qm_results[j] # None
                      THEN Some(qm_results[j][1].TIMING) ELSE qm_time[j]]
    /\ qm_caveats' = [j \in Jobs |->
                         IF qm_results[j] # None
                         THEN IF qm_results[j][1].CAVEATS # <<>>
                              THEN Append(qm_caveats[j], join(qm_results[j][1].CAVEATS))
                              ELSE qm_caveats[j]
                         ELSE Append(qm_caveats[j], <<"not originally launched">>)]
    /\ qm_output' = [j \in Jobs |->
                        IF qm_results[j] # None
                        THEN Some(qm_results[j][1].OUTPUT) ELSE qm_output[j]]
    /\ UNCHANGED qm_files

\* Lines 283-334
setJobStatus ==
    /\ qm_meta' = [qm_meta EXCEPT ![getJobs[1]].plugin = Some("stored")]
    /\ qm_finished' = [j \in Jobs |-> TRUE]
    /\ qm_status' = [j \in Jobs |->
                        IF isSilent(j) THEN qm_status[j]
                        ELSE IF qm_results[j] # None THEN encode(qm_results[j][1].STATUS)
                        ELSE skip]
    /\ qm_message' = [j \in Jobs |-> IF isSilent(j) THEN qm_message[j] ELSE ""]
    /\ qm_time' = [j \in Jobs |->
                      IF ~isSilent(j) /\ qm_results[j] # None
                      THEN Some(qm_results[j][1].TIMING) ELSE qm_time[j]]
    /\ qm_caveats' = [j \in Jobs |->
                         IF isSilent(j) THEN qm_caveats[j]
                         ELSE IF qm_results[j] # None
                         THEN IF qm_results[j][1].CAVEATS # <<>>
                              THEN Append(qm_caveats[j], join(qm_results[j][1].CAVEATS))
                              ELSE qm_caveats[j]
                         ELSE Append(qm_caveats[j], <<"not originally launched">>)]
    /\ qm_output' = [j \in Jobs |->
                        IF ~isSilent(j) /\ qm_results[j] # None
                        THEN Some(qm_results[j][1].OUTPUT) ELSE qm_output[j]]
    /\ UNCHANGED qm_files

\* Lines 135-140
getDirtyFiles == IF HasEntry THEN qm_queue_files ELSE {}

\* Lines 336-355, removing every recorded path
cleanupFiles_everyPath ==
    /\ qm_status' = [j \in Jobs |-> silent]
    /\ qm_message' = [j \in Jobs |-> ""]
    /\ qm_finished' = [j \in Jobs |-> TRUE]
    /\ qm_files' = qm_files \ {f \in getDirtyFiles : f \notin qm_locked}
    /\ UNCHANGED <<qm_caveats, qm_meta, qm_time, qm_output>>

\* Lines 336-355: every tester silent, every Job finished, and each recorded
\* path that lies in the test directory removed unless the removal raises
\* OSError
cleanupFiles ==
    /\ qm_status' = [j \in Jobs |-> silent]
    /\ qm_message' = [j \in Jobs |-> ""]
    /\ qm_finished' = [j \in Jobs |-> TRUE]
    /\ qm_files' = qm_files \ {f \in getDirtyFiles : InTestDir(f) /\ f \notin qm_locked}
    /\ UNCHANGED <<qm_caveats, qm_meta, qm_time, qm_output>>

\* Lines 44-71
augmentJobs ==
    /\ qm_pc = "start"
    /\ qm_pc' = "scheduled"
    /\ qm_pre' = Some([status |-> qm_status, message |-> qm_message,
                       caveats |-> qm_caveats, finished |-> qm_finished,
                       files |-> qm_files])
    /\ qm_deps' = [j \in Jobs |-> {}]
    /\ IF qm_cleanup THEN cleanupFiles
       ELSE \E ret \in BOOLEAN :
              /\ isProcessReady(ret)
              /\ IF ret THEN setJobStatus
                 ELSE IF isLaunchable THEN prepareJobs
                 ELSE TRUE
    /\ UNCHANGED <<qm_in_vars, qm_running, qm_seen, qm_refused>>
    /\ UNCHANGED not_qm_vars

\* Lines 97-102, refusing a Job whose demand exceeds the free slots
reserveSlots_countSlots(j) ==
    LET RECURSIVE used(_)
        used(S) == IF S = {} THEN 0
                   ELSE LET k == CHOOSE k \in S : TRUE IN qm_slots[k] + used(S \ {k})
    IN qm_slots[j] <= SlotBudget - used(qm_running)

\* Lines 97-102
reserveSlots(j) == TRUE

\* a Job's tester carries a failing status
Failing(j) == qm_status[j] = fail

\* The Scheduler's dispatcher: a Job that is not finished, whose dependencies
\* in the DAG are all FINISHED and non-failing, is handed to a free worker of
\* the pool if reserveSlots grants it
dispatch(j) ==
    /\ qm_pc = "scheduled"
    /\ ~qm_finished[j]
    /\ j \notin qm_running
    /\ \A a \in qm_deps[j] : qm_finished[a] /\ ~Failing(a)
    /\ Cardinality(qm_running) < PoolSize
    /\ IF reserveSlots(j)
       THEN /\ qm_running' = qm_running \cup {j}
            /\ qm_seen' = [qm_seen EXCEPT ![j] =
                              Some({a \in Jobs : qm_finished[a] /\ ~Failing(a)})]
            /\ UNCHANGED qm_refused
       ELSE /\ qm_refused' = qm_refused \cup {j}
            /\ UNCHANGED <<qm_running, qm_seen>>
    /\ UNCHANGED <<qm_pc, qm_job_vars, qm_in_vars, qm_deps, qm_files, qm_pre>>
    /\ UNCHANGED not_qm_vars

\* The worker drives the Job to FINISHED and signals
workerDone(j) ==
    /\ j \in qm_running
    /\ qm_running' = qm_running \ {j}
    /\ qm_finished' = [qm_finished EXCEPT ![j] = TRUE]
    /\ \E st \in {ok, fail} : qm_status' = [qm_status EXCEPT ![j] = st]
    /\ UNCHANGED <<qm_pc, qm_message, qm_caveats, qm_meta, qm_time, qm_output, qm_in_vars,
                   qm_deps, qm_files, qm_seen, qm_refused, qm_pre>>
    /\ UNCHANGED not_qm_vars

\* one group scheduled by a QueueManager
QueueSpecInit == QueueInit /\ RedirectInit /\ TestCaseInit(0) /\ differs = None /\ ScriptIdle /\ RunnerIdle /\ ParserIdle

QueueNext ==
    \/ augmentJobs
    \/ \E j \in Jobs : dispatch(j)
    \/ \E j \in Jobs : workerDone(j)

QueueSpec == QueueSpecInit /\ [][QueueNext]_vars

\* one launch script written from one template
ScriptSpecInit == ScriptInit /\ RedirectInit /\ QueueIdle /\ TestCaseInit(0) /\ differs = None /\ RunnerIdle /\ ParserIdle

ScriptNext == createQueueScript

ScriptSpec == ScriptSpecInit /\ [][ScriptNext]_vars

RunnerSpecInit == RunnerInit /\ RedirectInit /\ QueueIdle /\ ScriptIdle /\ TestCaseInit(0) /\ differs = None /\ ParserIdle
RunnerNext == preExecute \/ Runner_execute \/ postExecute
RunnerSpec == RunnerSpecInit /\ [][RunnerNext]_vars

ParserSpecInit == ParserInit /\ RunnerIdle /\ RedirectInit /\ QueueIdle /\ ScriptIdle /\ TestCaseInit(0) /\ differs = None
ParserNext == parse \/ parseNode \/ parse_return
ParserSpec == ParserSpecInit /\ [][ParserNext]_vars

\* ------------------------------------------------------- executeObject
\* controllerCheck without the isRunnable() test of line 191
controllerCheck_noRunnableTest(stale, cb) ==
    IF cb.raises THEN [stop |-> TRUE, state |-> "FATAL", out |-> "err_out"]
    ELSE IF cb.err THEN [stop |-> TRUE, state |-> "FATAL", out |-> "err_out"]
    ELSE IF stale \/ cb.objerr THEN [stop |-> TRUE, state |-> "FATAL", out |-> "err_out"]
    ELSE [stop |-> FALSE, state |-> "PASS", out |-> "c_run_out"]

\* Lines 169-192: the Controller stage.  'stale' is obj.status() before the
\* stage; the Controller is reset first, so its own status is what it logs
\* during execute.  stop = TRUE when executeObject returns from this part.
controllerCheck(stale, cb) ==
    IF cb.raises THEN [stop |-> TRUE, state |-> "FATAL", out |-> "err_out"]
    ELSE IF cb.err THEN [stop |-> TRUE, state |-> "FATAL", out |-> "err_out"]
    ELSE IF stale \/ cb.objerr THEN [stop |-> TRUE, state |-> "FATAL", out |-> "err_out"]
    ELSE IF cb.skip THEN [stop |-> TRUE, state |-> "SKIP", out |-> "c_run_out"]
    ELSE [stop |-> FALSE, state |-> "PASS", out |-> "c_run_out"]

\* objectExecute where a raised exception is reported like a logged error
objectExecute_exceptionAsError(ob) ==
    IF ob.raises THEN [state |-> "ERROR", out |-> "err_out", rc |-> None]
    ELSE IF ob.err THEN [state |-> "ERROR", out |-> "err_out", rc |-> Some(ob.rc)]
    ELSE [state |-> "PASS", out |-> "run_out", rc |-> Some(ob.rc)]

\* objectExecute without the obj.status() test of line 205
objectExecute_noStatusTest(ob) ==
    IF ob.raises THEN [state |-> "EXCEPTION", out |-> "err_out", rc |-> None]
    ELSE [state |-> "PASS", out |-> "run_out", rc |-> Some(ob.rc)]

\* Lines 194-210: obj.reset(), obj.execute(...), then obj.status().
objectExecute(ob) ==
    IF ob.raises THEN [state |-> "EXCEPTION", out |-> "err_out", rc |-> None]
    ELSE IF ob.err THEN [state |-> "ERROR", out |-> "err_out", rc |-> Some(ob.rc)]
    ELSE [state |-> "PASS", out |-> "run_out", rc |-> Some(ob.rc)]

\* Lines 167-210.  called = obj.execute was invoked; the last three fields
\* are the log state the stage leaves on the objects.
executeObject(stale, cb, ob) ==
    LET c == controllerCheck(stale, cb)
        o == objectExecute(ob)
    IN  IF c.stop
        THEN [state |-> c.state, out |-> c.out, rc |-> None, called |-> FALSE,
              obj_status |-> (stale \/ cb.objerr),
              ctrl_status |-> (cb.err \/ cb.raises), ctrl_runnable |-> ~cb.skip]
        ELSE [state |-> o.state, out |-> o.out, rc |-> o.rc, called |-> TRUE,
              obj_status |-> (ob.err \/ ob.raises),
              ctrl_status |-> FALSE, ctrl_runnable |-> TRUE]

\* line 156 testing the exit code only
runnerStops_exitcodeOnly(state) == exitcode(state) > 0

\* Line 156: the Runner's state ends execute before any Differ
runnerStops(state) == (state = "SKIP") \/ (exitcode(state) > 0)

\* line 162 testing for SKIP only
differReplaces_anyButSkip(d_state) == d_state # "SKIP"

\* Line 162: a Differ's state replaces the state to return
differReplaces(d_state) == (d_state # "SKIP") /\ (exitcode(d_state) > 0)

\* the record hist keeps of one stage
Observed(cb, r, ob, args) ==
    [ran |-> TRUE, cb |-> cb, called |-> r.called,
     ob |-> IF r.called THEN [raises |-> ob.raises, err |-> ob.err] ELSE NoObject,
     args |-> args]

\* ------------------------------------------------------------ the callers
\* The scheduler's worker drives one TestCase once: it calls execute() on a
\* WAITING TestCase and setResult() with what execute() returned.
workerCalls(method) ==
    \/ method = "execute" /\ w_pc = "waiting"
    \/ method = "setResult" /\ w_pc = "returned"

\* The dispatcher may poll report() whenever it is not inside report().
dispatcherCalls(method) == method = "report" /\ d_pc = "idle"

\* ------------------------------------------------------------ worker thread
\* Line 148: execute sets RUNNING
execute_148 ==
    /\ workerCalls("execute")
    /\ progress' = "RUNNING"
    /\ w_pc' = "e153"
    /\ UNCHANGED <<results, start_time, running_report_time, differs, obj_vars,
                   w_state, w_results, w_returncode, w_i, hist, d_vars, now>>
    /\ UNCHANGED not_tcase_vars

\* Line 153: the start time
execute_153 ==
    /\ w_pc = "e153"
    /\ start_time' = Some(now)
    /\ w_pc' = "e154"
    /\ UNCHANGED <<progress, results, running_report_time, differs, obj_vars,
                   w_state, w_results, w_returncode, w_i, hist, d_vars, now>>
    /\ UNCHANGED not_tcase_vars

\* Lines 154-157: the Runner stage and the early return
execute_runner ==
    /\ w_pc = "e154"
    /\ \E cb \in ControllerBehaviour, ob \in ObjectBehaviour :
         LET r == executeObject(obj_status[0], cb, ob) IN
         /\ w_state' = Some(r.state)
         /\ w_results' = [w_results EXCEPT
                             ![0] = Some([state |-> r.state, out |-> <<0, r.out>>])]
         /\ w_returncode' = r.rc
         /\ hist' = [hist EXCEPT ![0] = Observed(cb, r, ob, None)]
         /\ obj_status' = [obj_status EXCEPT ![0] = r.obj_status]
         /\ ctrl_status' = r.ctrl_status
         /\ ctrl_runnable' = r.ctrl_runnable
         /\ w_pc' = IF runnerStops(r.state) THEN "returned" ELSE "e159"
    /\ UNCHANGED <<tc_vars, w_i, d_vars, now>>
    /\ UNCHANGED not_tcase_vars

\* Line 159 with self._differs None: iterating None raises TypeError, which
\* nothing in execute catches
execute_for_none ==
    /\ w_pc = "e159"
    /\ differs = None
    /\ w_pc' = "raised"
    /\ UNCHANGED <<tc_vars, obj_vars, w_state, w_results, w_returncode, w_i, hist,
                   d_vars, now>>
    /\ UNCHANGED not_tcase_vars

\* the loop handing each Differ the output of the stage before it
execute_differ_previousOut ==
    /\ w_pc = "e159"
    /\ differs # None
    /\ w_i <= differs[1]
    /\ \E cb \in ControllerBehaviour, ob \in ObjectBehaviour :
         LET r == executeObject(obj_status[w_i], cb, ob) IN
         /\ w_results' = [w_results EXCEPT
                             ![w_i] = Some([state |-> r.state, out |-> <<w_i, r.out>>])]
         /\ w_state' = IF differReplaces(r.state) THEN Some(r.state) ELSE w_state
         /\ hist' = [hist EXCEPT ![w_i] =
                        Observed(cb, r, ob, Some(<<w_returncode, w_results[w_i - 1][1].out>>))]
         /\ obj_status' = [obj_status EXCEPT ![w_i] = r.obj_status]
         /\ ctrl_status' = r.ctrl_status
         /\ ctrl_runnable' = r.ctrl_runnable
    /\ w_i' = w_i + 1
    /\ UNCHANGED <<tc_vars, w_pc, w_returncode, d_vars, now>>
    /\ UNCHANGED not_tcase_vars

\* Lines 159-163: one iteration of the loop over the Differs
execute_differ ==
    /\ w_pc = "e159"
    /\ differs # None
    /\ w_i <= differs[1]
    /\ \E cb \in ControllerBehaviour, ob \in ObjectBehaviour :
         LET r == executeObject(obj_status[w_i], cb, ob) IN
         /\ w_results' = [w_results EXCEPT
                             ![w_i] = Some([state |-> r.state, out |-> <<w_i, r.out>>])]
         /\ w_state' = IF differReplaces(r.state) THEN Some(r.state) ELSE w_state
         /\ hist' = [hist EXCEPT ![w_i] =
                        Observed(cb, r, ob, Some(<<w_returncode, w_results[0][1].out>>))]
         /\ obj_status' = [obj_status EXCEPT ![w_i] = r.obj_status]
         /\ ctrl_status' = r.ctrl_status
         /\ ctrl_runnable' = r.ctrl_runnable
    /\ w_i' = w_i + 1
    /\ UNCHANGED <<tc_vars, w_pc, w_returncode, d_vars, now>>
    /\ UNCHANGED not_tcase_vars

\* Line 165: the loop is exhausted, execute returns
execute_165 ==
    /\ w_pc = "e159"
    /\ differs # None
    /\ w_i > differs[1]
    /\ w_pc' = "returned"
    /\ UNCHANGED <<tc_vars, obj_vars, w_state, w_results, w_returncode, w_i, hist,
                   d_vars, now>>
    /\ UNCHANGED not_tcase_vars

\* setResult storing the wrong Progress member
setResult_213_waiting ==
    /\ workerCalls("setResult")
    /\ progress' = "WAITING"
    /\ w_pc' = "s214"
    /\ UNCHANGED <<results, start_time, running_report_time, differs, obj_vars,
                   w_state, w_results, w_returncode, w_i, hist, d_vars, now>>
    /\ UNCHANGED not_tcase_vars

\* Line 213: setResult, called by the worker with what execute returned
setResult_213 ==
    /\ workerCalls("setResult")
    /\ progress' = "FINISHED"
    /\ w_pc' = "s214"
    /\ UNCHANGED <<results, start_time, running_report_time, differs, obj_vars,
                   w_state, w_results, w_returncode, w_i, hist, d_vars, now>>
    /\ UNCHANGED not_tcase_vars

\* Line 214
setResult_214 ==
    /\ w_pc = "s214"
    /\ results' = Some([state |-> w_state[1], out |-> w_results])
    /\ w_pc' = "done"
    /\ UNCHANGED <<progress, start_time, running_report_time, differs, obj_vars,
                   w_state, w_results, w_returncode, w_i, hist, d_vars, now>>
    /\ UNCHANGED not_tcase_vars

\* -------------------------------------------------------- dispatcher thread
\* Lines 217-222: report reads the progress and branches on it
report_217 ==
    /\ dispatcherCalls("report")
    /\ d_pc' = IF progress \notin {"FINISHED", "CLOSED"} THEN "pp241"
               ELSE IF progress = "FINISHED" THEN "pr225"
               ELSE "idle"
    /\ UNCHANGED <<tc_vars, obj_vars, w_vars, rendered, lines, now>>
    /\ UNCHANGED not_tcase_vars

\* Lines 241-242: _printProgress reads the progress again
printProgress_241 ==
    /\ d_pc = "pp241"
    /\ d_pc' = IF progress = "RUNNING" THEN "pp243" ELSE "idle"
    /\ UNCHANGED <<tc_vars, obj_vars, w_vars, rendered, lines, now>>
    /\ UNCHANGED not_tcase_vars

\* Lines 243-248: the progress line.  With no start time yet the subtraction
\* of line 246 raises TypeError in the dispatcher.
printProgress_243 ==
    /\ d_pc = "pp243"
    /\ LET rrt == IF running_report_time = None THEN start_time
                  ELSE running_report_time
       IN  IF rrt = None
           THEN /\ d_pc' = "crashed"
                /\ UNCHANGED <<running_report_time, lines>>
           ELSE /\ d_pc' = "idle"
                /\ IF now - rrt[1] > ProgressInterval
                   THEN /\ lines' = lines + 1
                        /\ running_report_time' = Some(now)
                   ELSE /\ lines' = lines
                        /\ running_report_time' = rrt
    /\ UNCHANGED <<progress, results, start_time, differs, obj_vars, w_vars,
                   rendered, now>>
    /\ UNCHANGED not_tcase_vars

\* Line 225: _printResult closes the TestCase first
printResult_225 ==
    /\ d_pc = "pr225"
    /\ progress' = "CLOSED"
    /\ d_pc' = "pr226"
    /\ UNCHANGED <<results, start_time, running_report_time, differs, obj_vars,
                   w_vars, rendered, lines, now>>
    /\ UNCHANGED not_tcase_vars

\* _printResult dropping the stored result once it is printed
printResult_226_consume ==
    /\ d_pc = "pr226"
    /\ IF results = None
       THEN /\ d_pc' = "crashed"
            /\ rendered' = rendered
            /\ results' = results
       ELSE /\ d_pc' = "idle"
            /\ rendered' = rendered + 1
            /\ results' = None
    /\ UNCHANGED <<progress, start_time, running_report_time, differs, obj_vars,
                   w_vars, lines, now>>
    /\ UNCHANGED not_tcase_vars

\* Lines 226-238: unpack the stored result (TypeError when it is still None)
\* and print it
printResult_226 ==
    /\ d_pc = "pr226"
    /\ IF results = None
       THEN /\ d_pc' = "crashed"
            /\ rendered' = rendered
       ELSE /\ d_pc' = "idle"
            /\ rendered' = rendered + 1
    /\ UNCHANGED <<tc_vars, obj_vars, w_vars, lines, now>>
    /\ UNCHANGED not_tcase_vars

\* time.time() advances
Tick ==
    /\ now < MaxTime
    /\ now' = now + 1
    /\ UNCHANGED <<tc_vars, obj_vars, w_vars, d_vars>>
    /\ UNCHANGED not_tcase_vars

Init == TestCaseInit(MaxThreadDiffers) /\ RedirectInit /\ QueueIdle /\ ScriptIdle /\ RunnerIdle /\ ParserIdle

Next ==
    \/ execute_148
    \/ execute_153
    \/ execute_runner
    \/ execute_for_none
    \/ execute_differ
    \/ execute_165
    \/ setResult_213
    \/ setResult_214
    \/ report_217
    \/ printProgress_241
    \/ printProgress_243
    \/ printResult_225
    \/ printResult_226
    \/ Tick

\* worker and dispatcher on one TestCase, under the wall clock
Spec == Init /\ [][Next]_vars

\* one worker thread driving execute and setResult, for the claims about
\* what execute computes
ExecInit == TestCaseInit(MaxDiffers) /\ RedirectInit /\ QueueIdle /\ ScriptIdle /\ RunnerIdle /\ ParserIdle

ExecNext ==
    \/ execute_148
    \/ execute_153
    \/ execute_runner
    \/ execute_for_none
    \/ execute_differ
    \/ execute_165
    \/ setResult_213
    \/ setResult_214

ExecSpec == ExecInit /\ [][ExecNext]_vars

TypeOK ==
    /\ progress \in Progress
    /\ w_pc \in {"waiting", "e153", "e154", "e159", "returned", "raised", "s214", "done"}
    /\ d_pc \in {"idle", "pp241", "pp243", "pr225", "pr226", "crashed"}
    /\ now \in 0..MaxTime

\* ------------------------------------------------------------------ claims
Returned == w_pc \in {"returned", "s214", "done"}

\* the state execute stored for stage i
StageState(i) == w_results[i][1].state

RanStages == {i \in Stages : hist[i].ran}

C2_ResultMatchesProgress ==
    /\ progress \in {"WAITING", "RUNNING"} => results = None
    /\ progress \in {"FINISHED", "CLOSED"} =>
          results # None /\ results[1].state \in Result

\* C3: once the Result is stored, no later step changes it.
C3_ResultSetOnce == [][results # None => results' = results]_vars

\* the Result is stored and report() has since rendered it
C3_Witness == results # None /\ rendered = 1 /\ progress = "CLOSED" /\ d_pc = "idle"

\* C4: whatever the Controller, the Runner and the Differs do, execute ends
\* by returning one Result; no exception leaves execute.
C4_ExecuteReturnsResult ==
    /\ w_pc # "raised"
    /\ Returned => w_state # None /\ w_state[1] \in Result

\* C5 as claimed: in the Controller check, the Runner's execute and a
\* Differ's execute alike, a raised exception makes the stage's Result
\* EXCEPTION.
C5_ExceptionInAnyStage ==
    \A i \in RanStages :
        (hist[i].cb.raises \/ (hist[i].called /\ hist[i].ob.raises))
            => StageState(i) = "EXCEPTION"

\* C5 amended: an exception raised by the Runner's or a Differ's execute
\* makes the stage's Result EXCEPTION; an exception raised by the Controller
\* check makes it FATAL.
C5_ExceptionByStage ==
    \A i \in RanStages :
        /\ (hist[i].called /\ hist[i].ob.raises) => StageState(i) = "EXCEPTION"
        /\ hist[i].cb.raises => StageState(i) = "FATAL"

\* a Differ's execute raised, and the Controller check of a later one raised
C5_Witness ==
    /\ hist[1].called /\ hist[1].ob.raises /\ StageState(1) = "EXCEPTION"
    /\ hist[2].ran /\ hist[2].cb.raises

\* C6: when obj.execute was invoked and did not raise, the stage's Result is
\* ERROR exactly when the object logged an error during execute and PASS
\* otherwise, whatever earlier stages logged.
C6_ErrorIffLogged ==
    \A i \in RanStages :
        (hist[i].called /\ ~hist[i].ob.raises) =>
            /\ StageState(i) = "ERROR" <=> hist[i].ob.err
            /\ StageState(i) = "PASS" <=> ~hist[i].ob.err

\* a Differ passes right after another Differ logged an error
C6_Witness ==
    /\ hist[1].called /\ hist[1].ob.err /\ ~hist[1].ob.raises /\ StageState(1) = "ERROR"
    /\ hist[2].called /\ ~hist[2].ob.err /\ ~hist[2].ob.raises /\ StageState(2) = "PASS"

\* C7 as claimed: when the Controller check declares the object unrunnable
\* the stage's Result is SKIP and obj.execute is not invoked.
C7_UnrunnableIsSkip ==
    \A i \in RanStages :
        hist[i].cb.skip => StageState(i) = "SKIP" /\ ~hist[i].called

\* C7 amended: when the Controller check declares the object unrunnable,
\* obj.execute is not invoked; the stage's Result is SKIP when the check
\* neither raised nor left an error on the Controller or on the object, and
\* FATAL when it did.
C7_UnrunnableNotExecuted ==
    \A i \in RanStages :
        hist[i].cb.skip =>
            /\ ~hist[i].called
            /\ StageState(i) =
                  IF hist[i].cb.raises \/ hist[i].cb.err \/ hist[i].cb.objerr
                  THEN "FATAL" ELSE "SKIP"

\* the Runner passed and the Controller check skipped a Differ
C7_Witness ==
    /\ hist[0].ran /\ StageState(0) = "PASS"
    /\ hist[1].ran /\ hist[1].cb.skip /\ StageState(1) = "SKIP"

\* C8: a Runner Result of SKIP, ERROR, EXCEPTION or FATAL ends execute: no
\* Differ stage runs and execute returns the Runner's Result.
C8_RunnerStopsDiffers ==
    (hist[0].ran /\ StageState(0) \in {"SKIP", "ERROR", "EXCEPTION", "FATAL"}) =>
        /\ \A i \in Stages \ {0} : ~hist[i].ran /\ w_results[i] = None
        /\ Returned
        /\ w_state = Some(StageState(0))

\* a skipped Runner with two Differs declared, after execute returned
C8_Witness ==
    /\ differs = Some(2)
    /\ hist[0].ran /\ StageState(0) = "SKIP"
    /\ w_pc = "done"

\* severity order PASS < SKIP < ERROR = EXCEPTION < FATAL
Severity(r) ==
    CASE r = "PASS"      -> 0
      [] r = "SKIP"      -> 1
      [] r = "ERROR"     -> 2
      [] r = "EXCEPTION" -> 2
      [] r = "FATAL"     -> 3

\* C9: the Result execute returns is as severe as the most severe Result of
\* the stages that ran.
C9_WorstOfStages ==
    Returned =>
        /\ \A i \in RanStages : Severity(w_state[1]) >= Severity(StageState(i))
        /\ \E i \in RanStages : Severity(w_state[1]) = Severity(StageState(i))

C11_StagesSequential ==
    \A i \in RanStages \ {0} :
        /\ hist[0].ran /\ StageState(0) = "PASS"
        /\ \A j \in 1..(i - 1) : hist[j].ran
        /\ w_returncode # None
        /\ hist[i].args = Some(<<w_returncode, <<0, "run_out">> >>)
        /\ w_results[0][1].out = <<0, "run_out">>

\* both Differs have run after a Runner that returned code 1
C11_Witness ==
    /\ hist[1].ran /\ hist[2].ran
    /\ w_returncode = Some(1)
    /\ w_pc = "done"

\* worker t is between the start of __enter__ and the end of __exit__
InScope(t) == ro_pc[t] \in {"e67", "e69", "body", "x77", "x78", "x80"}

\* C12: whatever other workers do meanwhile, the text a worker reads from
\* its capture scope is exactly the text it wrote inside that scope, and
\* nothing a worker wrote reaches the real streams.
C12_CaptureIsOwnOutput ==
    /\ \A t \in Workers : ro_captured[t] # None => ro_captured[t][1] = ro_wrote[t]
    /\ \A m \in real : m[1] = Main

\* C13: once every capture scope that was entered has exited, sys.stdout and
\* sys.stderr are the original streams again.
C13_StreamsRestored ==
    (\A t \in Workers : ~InScope(t)) =>
        /\ sys_stdout = RealStream("out")
        /\ sys_stderr = RealStream("err")

\* ------------------------------------------------ claims on the QueueManager
Augmented      == qm_pc = "scheduled"
SubmissionPass == ~qm_cleanup /\ qm_storage = "none"
ReapPass       == ~qm_cleanup /\ qm_storage # "none"
Pre            == qm_pre[1]
NotLaunched    == <<"not originally launched">>

\* the Job augmentJobs elects: the first of the list that was not finished
Elected == CHOOSE j \in Jobs : ~Pre.finished[j] /\ \A k \in Jobs : ~Pre.finished[k] => j <= k

RECURSIVE SetSum(_, _)
SetSum(f, S) == IF S = {} THEN 0
                ELSE LET k == CHOOSE k \in S : TRUE IN f[k] + SetSum(f, S \ {k})
SetMax(S) == CHOOSE m \in S : \A n \in S : n <= m

C15_WithinSlotBudget == SetSum(qm_slots, qm_running) <= SlotBudget

\* C15 (amended): the QueueManager's reserveSlots grants every request, so no
\* Job is ever turned down for slots; what limits the Jobs executing is that
\* augmentJobs leaves at most one Job of the group to execute.
C15_EveryRequestGranted == qm_refused = {} /\ Cardinality(qm_running) <= 1
C15_Witness == \E j \in qm_running : qm_slots[j] > SlotBudget

C17_ExecutorMetaData ==
    (Augmented /\ SubmissionPass /\ \E j \in Jobs : ~Pre.finished[j]) =>
        LET counted == {j \in Jobs : Pre.status[j] # skip} IN
        /\ qm_meta[Elected].QUEUEING = Some("QM")
        /\ qm_meta[Elected].QUEUEING_NCPUS =
               Some(SetMax({1} \cup {qm_slots[j] : j \in counted}))
        /\ qm_meta[Elected].QUEUEING_MAXTIME = Some(SetSum(qm_maxtime, counted))
C17_Witness ==
    /\ Augmented /\ SubmissionPass
    /\ \E e, j \in Jobs :
         /\ ~Pre.finished[e] /\ e = Elected /\ j # e /\ Pre.status[j] # skip
         /\ Pre.status[e] # skip
         /\ qm_slots[j] > qm_slots[e]
         /\ qm_meta[e].QUEUEING_NCPUS = Some(qm_slots[j])
         /\ qm_meta[e].QUEUEING_MAXTIME = Some(qm_maxtime[e] + qm_maxtime[j])

C22_NoPlaceholderRemains ==
    cqs_pc = "written" =>
        \A k \in Keys : ~Contains(cqs_script[1], <<"<", upper(k), ">">>)

\* ---------------------------------------------------------------- Runner
\* the Runner's and its Differs' names, each relative name joined to the base
\* of the object that declares it
ExpectedFiles ==
    filenames([names |-> rn_names, base |-> rn_base]).items
    \cup UNION {filenames(rn_differs[i]).items : i \in DOMAIN rn_differs}
\* the method returned; the kinds of the errors logged so far
HasReturned(method) == method \notin rn_raised
Logged == {rn_errors[i].kind : i \in DOMAIN rn_errors}

\* C23 (as stated): with 'clean' enabled, once preExecute has returned no
\* expected file exists, whichever check failed.
C23_CleanedWhateverFailed ==
    (rn_pc = "pre" /\ HasReturned("preExecute") /\ rn_clean)
        => \A f \in ExpectedFiles : ~isfile(f, rn_files)

\* C23 (amended): with 'clean' enabled, once preExecute has returned without
\* the not-absolute error and without the version-control error, no expected
\* file exists, whatever existed before.
C23_CleanedWhenChecksPass ==
    (rn_pc = "pre" /\ HasReturned("preExecute") /\ rn_clean
     /\ Logged \cap {"not_absolute", "git"} = {})
        => \A f \in ExpectedFiles : ~isfile(f, rn_files)
C23_Witness ==
    /\ rn_pc = "pre" /\ HasReturned("preExecute") /\ rn_clean
    /\ Logged = {}
    /\ rn_removed \cap ExpectedFiles # {}

\* C24: preExecute logs exactly one error, and checks no further, when (a) an
\* expected path is not absolute, else (b) an expected path is under version
\* control, else (d) an expected file exists after the cleaning step; it logs
\* none of these errors otherwise; cleaning never removes a tracked file.
C24_ChecksInOrder ==
    rn_pc = "pre" =>
        LET kinds == [i \in DOMAIN rn_errors |-> rn_errors[i].kind]
        IN  /\ IF \E f \in ExpectedFiles : ~isabs(f)
               THEN kinds = <<"not_absolute">>
               ELSE IF ExpectedFiles \cap rn_git # {}
               THEN kinds = <<"git">>
               ELSE IF \E f \in ExpectedFiles : isfile(f, rn_files)
               THEN kinds = <<"exist">>
               ELSE Logged \cap {"not_absolute", "git", "exist"} = {}
            /\ rn_removed \cap rn_git = {}

\* preExecute went past the checks of the expected files (line 194)
PastFileChecks ==
    /\ HasReturned("preExecute")
    /\ rn_expected # None
    /\ Logged \cap {"not_absolute", "git", "exist"} = {}
\* the entries of 'base', as full paths
BaseEntries(files) == {f \in files : f[1] = rn_base[1]}

\* C25: the snapshot is taken exactly when 'check_created' is true, or is
\* unset while 'base' is set; it is the set of the entries of 'base' at that
\* moment; 'check_created' true without 'base' logs an error and takes none.
C25_SnapshotOfBase ==
    (rn_pc = "pre" /\ PastFileChecks) =>
        /\ rn_pre_files # None
               <=> (rn_base # None /\ rn_check_created \in {None, Some(TRUE)})
        /\ rn_pre_files # None => rn_pre_files[1] = BaseEntries(rn_files)
        /\ (rn_check_created = Some(TRUE) /\ rn_base = None)
               => ("check_created" \in Logged /\ rn_pre_files = None)

\* C26: postExecute, called after any preExecute, returns without raising and
\* logs the 'not created as expected' error if and only if some expected file
\* does not exist after the execution.
C26_NotCreatedIffMissing ==
    rn_pc = "post" =>
        /\ HasReturned("postExecute")
        /\ "not_created" \in Logged <=> \E f \in ExpectedFiles : ~isfile(f, rn_files)

\* the files the 'created but not expected' errors list
Reported ==
    UNION {rn_errors[i].files :
               i \in {j \in DOMAIN rn_errors : rn_errors[j].kind = "created_not_expected"}}
\* the files in 'base' after the execution that were not there when preExecute
\* ended and are not expected
CreatedUnexpected == (BaseEntries(rn_files) \ rn_files0) \ ExpectedFiles

\* C27: with the created-files check active, postExecute logs the 'created but
\* not expected' error if and only if some file is in 'base' after the
\* execution, was not there at the snapshot and is not expected, and the error
\* lists exactly those files; a file that existed before is never reported.
C27_CreatedNotExpected ==
    (rn_pc = "post" /\ rn_pre_files # None /\ HasReturned("postExecute")) =>
        /\ "created_not_expected" \in Logged <=> CreatedUnexpected # {}
        /\ {path_join(rn_base[1], f) : f \in Reported} = CreatedUnexpected

\* C28: a file created in 'base' during the execution whose name matches one
\* of the 'ignore_patterns' is not reported as created but not expected.
C28_IgnoredNotReported ==
    (rn_pc = "post" /\ rn_pre_files # None) =>
        \A f \in Reported :
            ~(f[2] \in rn_ignore /\ path_join(rn_base[1], f) \in CreatedUnexpected)

\* C29: for every Runner and every list of Differs, _getExpectedFiles gives
\* the union of the Runner's names and of each Differ's, a relative name
\* joined to the 'base' of the object that declares it when it has one.
C29_ExpectedIsUnion ==
    rn_pc = "pre" => rn_expected = Some(ExpectedFiles)

\* ---------------------------------------------------------------- Parser
\* the block was handled by the loop of parse
Parsed(i) == ps_pc \in {"nodes", "done"} /\ ps_loadable /\ i \in DOMAIN ps_blocks /\ i < ps_i
\* the diagnostics about block i
Diagnostics(i) == SelectSeq(ps_errors, LAMBDA d : d.block = i)

\* C30: a leaf block whose 'type' is missing, or names a type the Factory does
\* not know, gets exactly one diagnostic (MissingType, UnknownType); no
\* parameter is set, nothing is constructed and nothing is appended for it.
C30_NoTypeNoObject ==
    \A i \in DOMAIN ps_blocks :
        (Parsed(i) /\ ps_blocks[i].leaf
         /\ (ps_blocks[i].type = None \/ ps_blocks[i].type = Some("NoSuch")))
            => /\ Len(Diagnostics(i)) = 1
               /\ Diagnostics(i)[1].kind =
                      (IF ps_blocks[i].type = None THEN "MissingType" ELSE "UnknownType")
               /\ \A k \in DOMAIN ps_set : ps_set[k].block # i
               /\ \A k \in DOMAIN ps_created : ps_created[k] # i
               /\ \A k \in DOMAIN ps_warehouse : ps_warehouse[k].block # i
C30_Witness ==
    /\ ps_pc = "done"
    /\ \E i, j \in DOMAIN ps_blocks :
           /\ ps_blocks[i].leaf /\ ps_blocks[i].type = None /\ ps_blocks[i].params # <<>>
           /\ ps_blocks[j].leaf /\ ps_blocks[j].type = Some("NoSuch")
           /\ ps_blocks[j].params # <<>>
           /\ Len(Diagnostics(i)) = 1 /\ Len(Diagnostics(j)) = 1

\* the leaf block was handled and its type is one the Factory knows
Typed(i) ==
    /\ Parsed(i) /\ ps_blocks[i].leaf
    /\ ps_blocks[i].type # None /\ factory_params(ps_blocks[i].type[1]) # None

\* C31: for each parameter of a leaf block other than 'type', a name the
\* ParamSet of the type recognizes is assigned its value; any other name gets
\* one UnusedParameter diagnostic and no assignment is attempted for it; the
\* block goes on to its construction either way.
C31_UnusedNotAssigned ==
    \A i \in DOMAIN ps_blocks :
        Typed(i) =>
            /\ \E k \in DOMAIN ps_created : ps_created[k] = i
            /\ \A p \in DOMAIN ps_blocks[i].params :
                   LET key == ps_blocks[i].params[p][1]
                       value == ps_blocks[i].params[p][2]
                       known == key \in factory_params(ps_blocks[i].type[1])[1]
                   IN  IF known
                       THEN \E k \in DOMAIN ps_set :
                                ps_set[k] = [block |-> i, key |-> key, value |-> value]
                       ELSE /\ \E d \in DOMAIN ps_errors :
                                   ps_errors[d] = diagnostic("UnusedParameter", i, key)
                            /\ \A k \in DOMAIN ps_set :
                                   ~(ps_set[k].block = i /\ ps_set[k].key = key)

\* the blocks whose construction succeeds, and those whose construction fails
Constructed == {i \in DOMAIN ps_blocks : Typed(i) /\ ps_blocks[i].type = Some("T")}
NotConstructed == {i \in DOMAIN ps_blocks : Typed(i) /\ ps_blocks[i].type = Some("Bad")}

\* C32: a failing block never stops the parsing of the others: after parse the
\* Warehouse holds exactly one object for each leaf block whose construction
\* succeeded, in pre-order of the blocks, and there is one ConstructionFailed
\* diagnostic for each block whose construction failed.
C32_FailuresAreLocal ==
    (ps_pc = "done" /\ ps_loadable) =>
        /\ ps_i = Len(ps_blocks) + 1
        /\ {ps_warehouse[k].block : k \in DOMAIN ps_warehouse} = Constructed
        /\ \A k, l \in DOMAIN ps_warehouse :
               k < l => ps_warehouse[k].block < ps_warehouse[l].block
        /\ \A i \in DOMAIN ps_blocks :
               Len(SelectSeq(Diagnostics(i), LAMBDA d : d.kind = "ConstructionFailed"))
                   = (IF i \in NotConstructed THEN 1 ELSE 0)
C32_Witness ==
    /\ ps_pc = "done" /\ ps_loadable
    /\ Len(ps_blocks) = 2
    /\ ps_blocks[1].leaf /\ ps_blocks[1].type = Some("Bad")
    /\ 2 \in Constructed
    /\ Len(ps_warehouse) = 1

\* C33: parse emits one DuplicateParameter diagnostic for each repeated
\* parameter path and one DuplicateBlock diagnostic for each repeated block
\* path (here: of the blocks of a file whose blocks are all leaves), and no
\* duplicate diagnostic for a file that repeats nothing.
C33_DuplicatesReported ==
    (ps_pc = "done" /\ ps_loadable) =>
        LET kinds(k) == {d \in DOMAIN ps_errors : ps_errors[d].kind = k}
            repeatedParams ==
                {<<i, q>> \in (DOMAIN ps_blocks) \X {1, 2} :
                     /\ q \in DOMAIN ps_blocks[i].params
                     /\ \E p \in 1..(q - 1) :
                            ps_blocks[i].params[p][1] = ps_blocks[i].params[q][1]}
            repeatedBlocks ==
                {j \in DOMAIN ps_blocks :
                     /\ \A i \in DOMAIN ps_blocks : ps_blocks[i].leaf
                     /\ \E i \in 1..(j - 1) : ps_blocks[i].name = ps_blocks[j].name}
        IN  /\ Cardinality(kinds("DuplicateParameter")) = Cardinality(repeatedParams)
            /\ Cardinality(kinds("DuplicateBlock")) = Cardinality(repeatedBlocks)

\* C34: for each block that has a 'type' parameter and also has child blocks,
\* parse emits an AmbiguousBlock diagnostic.
C34_AmbiguousReported ==
    (ps_pc = "done" /\ ps_loadable) =>
        \A i \in DOMAIN ps_blocks :
            (~ps_blocks[i].leaf /\ ps_blocks[i].type # None)
                => \E d \in DOMAIN ps_errors :
                       ps_errors[d].kind = "AmbiguousBlock" /\ ps_errors[d].block = i

\* --------------------------------------------------------------- report
\* the time of the last progress line, or of the start of execute when no
\* progress line was emitted yet
LastReport == IF running_report_time = None THEN start_time ELSE running_report_time

\* C35: while the TestCase is RUNNING, report() emits one progress line if and
\* only if the time since the last progress line (or since the start of
\* execute) exceeds the interval, and the last-report time then becomes the
\* current time; otherwise it emits nothing and the last-report time stays.
\* While WAITING, report() emits nothing and changes nothing.
C35_ProgressLineIffInterval ==
    [][/\ (d_pc = "pp243" /\ d_pc' # "pp243" /\ progress = "RUNNING") =>
              /\ d_pc' = "idle"
              /\ LastReport # None
              /\ IF now - LastReport[1] > ProgressInterval
                 THEN lines' = lines + 1 /\ running_report_time' = Some(now)
                 ELSE lines' = lines /\ LastReport' = LastReport
       /\ progress = "WAITING" =>
              /\ lines' = lines
              /\ running_report_time' = running_report_time
              /\ d_pc' # "crashed"]_vars

\* C36: Progress is CLOSED only once the result has been rendered (looked at
\* outside the call of _printResult that is rendering it), and once CLOSED no
\* step changes Progress.
C36_ClosedAfterRendered ==
    /\ [](progress = "CLOSED" /\ d_pc # "pr226" => rendered >= 1)
    /\ [][progress = "CLOSED" => progress' = "CLOSED"]_vars

\* C37: for the report() calls made after setResult, the result is rendered
\* exactly once: the first report() in FINISHED renders it and closes the
\* TestCase; a later report() renders nothing and changes nothing.
C37_RenderedExactlyOnce ==
    /\ [](rendered <= 1)
    /\ []((w_pc = "done" /\ progress = "CLOSED" /\ d_pc # "pr226") => rendered = 1)
    /\ [][(progress = "CLOSED" /\ rendered = 1 /\ d_pc = "idle")
              => (rendered' = rendered /\ lines' = lines /\ progress' = progress
                  /\ results' = results /\ running_report_time' = running_report_time)]_vars

\* C38: whenever Progress is RUNNING the start time is set, so report() never
\* computes an elapsed time from an unset start time.
C38_RunningHasStartTime ==
    /\ progress = "RUNNING" => start_time # None
    /\ d_pc = "pp243" => start_time # None

\* --------------------------------------------------- augmentJobs, again
\* what each mode leaves behind: the stored queueing data on the first Job
\* (line 302), the launch data on the elected Job (lines 272-274)
ResultsRead == qm_meta[getJobs[1]].plugin # None
Prepared    == \E j \in Jobs : qm_meta[j].QUEUEING # None

\* C39: a call of augmentJobs applies at most one of cleanup, reap and
\* submission; the launch is prepared only when there is no results storage
\* of a previous session; the results are read only when the results file
\* exists and the storage has an entry for the test directory under the
\* current plugin name.
C39_OneModePerCall ==
    Augmented =>
        /\ ~(ResultsRead /\ Prepared)
        /\ qm_cleanup => (~ResultsRead /\ ~Prepared)
        /\ Prepared => qm_storage = "none"
        /\ ResultsRead => (ResultsFile \in Pre.files /\ HasEntry /\ HasPlugin)
C39_Witness ==
    /\ Augmented /\ ~qm_cleanup
    /\ ResultsRead
    /\ \E j \in Jobs : Pre.status[j] = no_status /\ qm_status[j] # no_status

====
